---------------------------- MODULE Spec2Model ----------------------------
(***************************************************************************)
(* Tu Akarreo calendar API (src/server.js): POST /api/calendar/search and   *)
(* POST /api/calendar/reserve against the Google Calendar service.          *)
(*                                                                          *)
(* Time is an instant in milliseconds counted from 00:00 UTC of the         *)
(* requested date (fecha).  A duration in hours is kept exactly, as a       *)
(* record [ms, f]: ms whole milliseconds plus f/175 of a millisecond        *)
(* (0.3333333 h = 1199999 + 154/175 ms, d/35 h = d*720000/7 ms), so that    *)
(* Math.round(hours * 60 * 60 * 1000) is computed as the code computes it.  *)
(* A volume is kept in tenths of a cubic metre (7.5 m3 = 75).               *)
(* A free-text string (a calendar summary, tipoFlete) is a sequence of its  *)
(* fields/words; toLowerCase and includes act on the words.                 *)
(***************************************************************************)
EXTENDS Integers, Sequences, FiniteSets, TLC

VARIABLES events, nextId, hostOffset, search, reserve

vars == <<events, nextId, hostOffset, search, reserve>>

(***************************************************************************)
(* Bounds and program constants                                             *)
(***************************************************************************)
NumReserve == 2

HourMs == 3600000
OPERATIVE_START_HOUR == 6
OPERATIVE_END_HOUR == 20
BogotaOffsetHours == -5
velocidadProm == 35
DefaultMaxM3 == 9999

FracDen == 25 * 7
DayMs == 24 * HourMs
Requests == 1..NumReserve

(***************************************************************************)
(* Strings                                                                  *)
(***************************************************************************)
\* String.prototype.toLowerCase on the words that occur
toLowerCase(w) ==
    CASE w = "Pereira"    -> "pereira"
      [] w = "PEREIRA"    -> "pereira"
      [] w = "Cali"       -> "cali"
      [] w = "ACTIVO"     -> "activo"
      [] w = "INACTIVO"   -> "inactivo"
      [] w = "Pausado"    -> "pausado"
      [] w = "Mudanza"    -> "mudanza"
      [] w = "Mobiliario" -> "mobiliario"
      [] w = "Mercancia"  -> "mercancia"
      [] w = "Furgon"     -> "furgon"
      [] w = "Camion"     -> "camion"
      [] w = "TU-A0001"   -> "tu-a0001"
      [] w = "TU-A0002"   -> "tu-a0002"
      [] w = "TU-A0003"   -> "tu-a0003"
      [] w = "TU-A0004"   -> "tu-a0004"
      [] OTHER            -> w

\* the proper substrings among the lower-case words that occur
ProperSubstrings == {<<"activo", "inactivo">>}

\* String.prototype.includes: s (a sequence of lower-case words) contains needle
includes(s, needle) ==
    \/ needle = ""
    \/ \E i \in 1..Len(s) : s[i] = needle \/ <<needle, s[i]>> \in ProperSubstrings

\* (x || "").toLowerCase() of a sequence of words
lowerAll(s) == [i \in 1..Len(s) |-> toLowerCase(s[i])]

(***************************************************************************)
(* Durations                                                                *)
(***************************************************************************)
Hours(n, halves) == [ms |-> n * HourMs + halves * (HourMs \div 2), f |-> 0]

\* function duracionPorTipoYVolumen(tipoFlete, metrosCubicos): hours
duracionPorTipoYVolumen(tipoFlete, metrosCubicos) ==
    LET tipo == lowerAll(tipoFlete)
        m == metrosCubicos
    IN  IF includes(tipo, "mobiliario")
           \/ (includes(tipo, "mercancia") /\ includes(tipo, "mobiliario"))
        THEN [ms |-> 1199999, f |-> 154]      \* 0.3333333 h
        ELSE IF includes(tipo, "mudanza")
        THEN IF m <= 75 THEN Hours(2, 0)
             ELSE IF m <= 120 THEN Hours(2, 1)
             ELSE IF m <= 170 THEN Hours(3, 0)
             ELSE IF m <= 260 THEN Hours(4, 0)
             ELSE IF m <= 330 THEN Hours(5, 0)
             ELSE Hours(6, 0)
        ELSE Hours(1, 0)

\* function estimarDesplazamientoHoras(distanciaKm): hours.
\* distanciaKm is <<>> (absent or null) or <<d>> (the number d)
estimarDesplazamientoHoras(distanciaKm) ==
    IF distanciaKm # <<>> /\ distanciaKm[1] # 0
    THEN LET n == distanciaKm[1] * HourMs
         IN  [ms |-> n \div velocidadProm,
              f  |-> (n % velocidadProm) * (FracDen \div velocidadProm)]
    ELSE Hours(0, 1)

\* Math.round(hours * 60 * 60 * 1000) of a sum of durations and whole hours
RoundMs(ds, wholeHours) ==
    LET SumMs[i \in 0..Len(ds)] == IF i = 0 THEN 0 ELSE SumMs[i - 1] + ds[i].ms
        SumF[i \in 0..Len(ds)] == IF i = 0 THEN 0 ELSE SumF[i - 1] + ds[i].f
    IN  SumMs[Len(ds)] + wholeHours * HourMs
          + ((2 * SumF[Len(ds)] + FracDen) \div (2 * FracDen))

(***************************************************************************)
(* Dates                                                                    *)
(***************************************************************************)
\* new Date(`${fecha}T${hh}:${mm}:${ss}-05:00`): the instant of a wall time
isoFromDateTimeLocal(hh, mm, ss) ==
    ((hh * 60 + mm) * 60 + ss) * 1000 - BogotaOffsetHours * HourMs

\* Date.prototype.getHours: the hour of the instant on the host's clock
getHours(t) == (((t + hostOffset * HourMs) + DayMs) % DayMs) \div HourMs

(***************************************************************************)
(* The calendar service                                                     *)
(***************************************************************************)
\* calendar.calendarList.list(): the account's calendars, in list order
CalendarList ==
    << [id |-> "c1", summary |-> <<"INACTIVO", "Pereira", "TU-A0001", "Furgon", "12m">>],
       [id |-> "c2", summary |-> <<>>],
       [id |-> "c3", summary |-> <<"ACTIVO", "Pereira", "TU-A0002", "Furgon", "7m">>],
       [id |-> "c4", summary |-> <<"ACTIVO", "PEREIRA", "TU-A0003", "Camion">>],
       [id |-> "c5", summary |-> <<"ACTIVO", "Cali", "TU-A0004", "Camion", "40m">>] >>

\* a list that applies timeMin to the start of an event, exclusively
eventsList_StartAfterMin(calendarId, timeMin, timeMax) ==
    {e \in events : e.calendarId = calendarId /\ e.start > timeMin /\ e.start < timeMax}

\* a list of the events that start inside the window
eventsList_StartInside(calendarId, timeMin, timeMax) ==
    {e \in events : e.calendarId = calendarId /\ e.start >= timeMin /\ e.start < timeMax}

\* calendar.events.list({calendarId, timeMin, timeMax}): the events that end
\* after timeMin and start before timeMax (both bounds exclusive)
eventsList(calendarId, timeMin, timeMax) ==
    {e \in events : e.calendarId = calendarId /\ e.end > timeMin /\ e.start < timeMax}

\* calendar.events.insert({calendarId, requestBody}): the service stores the
\* event under a fresh id.  summary is the customer the reservation names
\* (`Reserva Tu Akarreo - ${cliente.nombre}`): the request's number; 0 is an
\* event that is no reservation of these requests
eventsInsert(calendarId, summary, start, end) ==
    events \cup {[id |-> nextId, calendarId |-> calendarId, summary |-> summary,
                  start |-> start, end |-> end]}

(***************************************************************************)
(* POST /api/calendar/search                                                *)
(***************************************************************************)
\* a filter that forgets the inactive marker
isCandidate_IgnoresInactive(c, ciudadOrigen) ==
    LET s == lowerAll(c.summary)
    IN  /\ s # <<>>
        /\ ~(ciudadOrigen # "" /\ ~includes(s, toLowerCase(ciudadOrigen)))
        /\ ~includes(s, "pausado")

\* calendars.filter(c => ...): label non-empty, contains the city, not
\* inactive or paused
isCandidate(c, ciudadOrigen) ==
    LET s == lowerAll(c.summary)
    IN  /\ s # <<>>
        /\ ~(ciudadOrigen # "" /\ ~includes(s, toLowerCase(ciudadOrigen)))
        /\ ~(includes(s, "inactivo") \/ includes(s, "pausado"))

candidatesOf(calendars, ciudadOrigen) ==
    SelectSeq(calendars, LAMBDA c : isCandidate(c, ciudadOrigen))

\* slotsBase: the wall times hh:mm of the grid, OPERATIVE_START_HOUR to
\* OPERATIVE_END_HOUR, at :00 and :30
slotsBase ==
    [i \in 1..(2 * (OPERATIVE_END_HOUR - OPERATIVE_START_HOUR + 1)) |->
        [hh |-> OPERATIVE_START_HOUR + ((i - 1) \div 2), mm |-> 30 * ((i - 1) % 2)]]

\* (parts[4] || "").match(/([0-9]+(?:\.[0-9]+)?)/), in tenths of a cubic metre
matchNumber(part) ==
    CASE part = "7m"  -> <<70>>
      [] part = "12m" -> <<120>>
      [] part = "40m" -> <<400>>
      [] OTHER        -> <<>>

\* maxM3 of a calendar, parsed from the fifth field of its summary
maxM3Of(cal) ==
    LET m == IF Len(cal.summary) >= 5 THEN matchNumber(cal.summary[5]) ELSE <<>>
    IN  IF m # <<>> THEN m[1] ELSE DefaultMaxM3 * 10

\* calendarCode = parts[2] || cal.summary ; vehicleType = parts[3] || ""
calendarCodeOf(cal) ==
    IF Len(cal.summary) >= 3 /\ cal.summary[3] # "" THEN <<cal.summary[3]>> ELSE cal.summary
vehicleTypeOf(cal) ==
    IF Len(cal.summary) >= 4 THEN cal.summary[4] ELSE ""

\* an overlap test that looks at the start of the slot only
conflict_StartOnly(booked, slotStart, slotEnd) ==
    \E ev \in booked : slotStart < ev.end /\ slotStart >= ev.start

\* booked.some(ev => slotStart < ev.end && slotEnd > ev.start)
conflict(booked, slotStart, slotEnd) ==
    \E ev \in booked : slotStart < ev.end /\ slotEnd > ev.start

\* the guard of the scan: the slot leaves the operating hours
outsideOperatingHours(slotStart, slotEnd) ==
    getHours(slotStart) < OPERATIVE_START_HOUR \/ getHours(slotEnd) > OPERATIVE_END_HOUR + 1

\* the loop over slotsBase: the starts that pass the guard and hit no event
availableSlotsOf(booked, estimatedServiceHours) ==
    LET scan[i \in 0..Len(slotsBase)] ==
          IF i = 0 THEN <<>>
          ELSE LET slotStart == isoFromDateTimeLocal(slotsBase[i].hh, slotsBase[i].mm, 0)
                   slotEnd == slotStart + RoundMs(<<estimatedServiceHours>>, 0)
               IN  IF outsideOperatingHours(slotStart, slotEnd) THEN scan[i - 1]
                   ELSE IF ~conflict(booked, slotStart, slotEnd)
                        THEN Append(scan[i - 1], slotStart)
                        ELSE scan[i - 1]
    IN  scan[Len(slotsBase)]

\* the loop over candidates from index i on, up to the next events.list:
\* the first index whose calendar has the capacity (Len + 1: none left)
nextWithCapacity(cands, i, metrosCubicos) ==
    LET ok == {j \in i..Len(cands) : ~(maxM3Of(cands[j]) < metrosCubicos)}
    IN  IF ok = {} THEN Len(cands) + 1 ELSE CHOOSE j \in ok : \A k \in ok : j <= k

NoCalendar == [calendarId |-> "", calendarCode |-> <<>>, vehicleType |-> "",
               maxM3 |-> 0, availableSlots |-> <<>>]

SearchIdle == [pc |-> "idle", body |-> <<>>, candidates |-> <<>>, idx |-> 0,
               booked |-> {}, status |-> 0, available |-> FALSE, calendar |-> NoCalendar]

Cities == {"", "Pereira", "Cali"}
Services == { [tipoFlete |-> <<>>, metrosCubicos |-> 0],
              [tipoFlete |-> <<"Mudanza">>, metrosCubicos |-> 100],
              [tipoFlete |-> <<"Mudanza">>, metrosCubicos |-> 400],
              [tipoFlete |-> <<"Mercancia", "Mobiliario">>, metrosCubicos |-> 0] }

SearchBodies ==
    { [fecha |-> f, ciudadOrigen |-> c, tipoFlete |-> s.tipoFlete,
       metrosCubicos |-> s.metrosCubicos] : f \in BOOLEAN, c \in Cities, s \in Services }

\* the handler up to its first await: the 400 of a missing fecha
SearchStart(body) ==
    /\ search.pc = "idle"
    /\ search' = IF ~body.fecha
                 THEN [SearchIdle EXCEPT !.pc = "done", !.body = body, !.status = 400]
                 ELSE [SearchIdle EXCEPT !.pc = "calendarList", !.body = body]
    /\ UNCHANGED <<events, nextId, hostOffset, reserve>>

\* the answer of the search once the scan arrives at candidate index i
SearchAt(s, i) ==
    IF i > Len(s.candidates)
    THEN [s EXCEPT !.pc = "done", !.idx = i, !.status = 200, !.available = FALSE]
    ELSE [s EXCEPT !.pc = "eventsList", !.idx = i]

\* calendarList.list() answers (or fails): filter, then on to the first
\* candidate with the capacity
SearchCalendarList(ok) ==
    /\ search.pc = "calendarList"
    /\ search' = IF ~ok
                 THEN [search EXCEPT !.pc = "done", !.status = 500]
                 ELSE LET cands == candidatesOf(CalendarList, search.body.ciudadOrigen)
                          s == [search EXCEPT !.candidates = cands]
                      IN  SearchAt(s, nextWithCapacity(cands, 1, search.body.metrosCubicos))
    /\ UNCHANGED <<events, nextId, hostOffset, reserve>>

\* events.list() of the current candidate answers (or fails): scan the grid,
\* answer with this calendar if a slot survives, else on to the next candidate
SearchEventsList(ok) ==
    /\ search.pc = "eventsList"
    /\ search' =
         IF ~ok
         THEN [search EXCEPT !.pc = "done", !.status = 500]
         ELSE LET cal == search.candidates[search.idx]
                  evs == eventsList(cal.id, isoFromDateTimeLocal(0, 0, 0),
                                    isoFromDateTimeLocal(23, 59, 59))
                  booked == {[start |-> e.start, end |-> e.end] : e \in evs}
                  estimatedServiceHours ==
                      duracionPorTipoYVolumen(search.body.tipoFlete, search.body.metrosCubicos)
                  availableSlots == availableSlotsOf(booked, estimatedServiceHours)
              IN  IF Len(availableSlots) > 0
                  THEN [search EXCEPT !.pc = "done", !.status = 200, !.available = TRUE,
                                      !.booked = booked,
                                      !.calendar = [calendarId |-> cal.id,
                                                    calendarCode |-> calendarCodeOf(cal),
                                                    vehicleType |-> vehicleTypeOf(cal),
                                                    maxM3 |-> maxM3Of(cal),
                                                    availableSlots |-> availableSlots]]
                  ELSE SearchAt(search, nextWithCapacity(search.candidates, search.idx + 1,
                                                         search.body.metrosCubicos))
    /\ UNCHANGED <<events, nextId, hostOffset, reserve>>

(***************************************************************************)
(* POST /api/calendar/reserve                                               *)
(***************************************************************************)
\* a request's handler: where it is, its locals and its answer.
\* completedBefore (the requests that had answered 200 when this one arrived)
\* and fromSearch (the body was made from the search's answer) record how
\* the request came about
ReserveIdle == [pc |-> "idle", body |-> <<>>, duracionBase |-> Hours(0, 0),
                duracionTraslado |-> Hours(0, 0), prevEvents |-> 0, bufferHoras |-> 0,
                start |-> 0, end |-> 0, status |-> 0, eventId |-> 0,
                completedBefore |-> {}, fromSearch |-> FALSE]

ReserveBody(c, f, t, s, d) ==
    [calendarId |-> c, fecha |-> f, slotISO |-> t, tipoFlete |-> s.tipoFlete,
     metrosCubicos |-> s.metrosCubicos, distanciaKm |-> d]

DefaultService == [tipoFlete |-> <<>>, metrosCubicos |-> 0]

\* one body per missing required field
InvalidBodies ==
    { ReserveBody("", TRUE, <<isoFromDateTimeLocal(9, 0, 0)>>, DefaultService, <<>>),
      ReserveBody("c3", FALSE, <<isoFromDateTimeLocal(9, 0, 0)>>, DefaultService, <<>>),
      ReserveBody("c3", TRUE, <<>>, DefaultService, <<>>) }

\* the bodies of the requests that run side by side
ConcurrentBodies ==
    { ReserveBody(c, TRUE, <<t>>, DefaultService, d) :
        c \in {"c3", "c4"},
        t \in {isoFromDateTimeLocal(9, 0, 0), isoFromDateTimeLocal(10, 30, 0)},
        d \in {<<>>, <<35>>} }
    \cup InvalidBodies

\* the bodies of a request that runs alone
AllServices ==
    Services \cup { [tipoFlete |-> <<"Mudanza">>, metrosCubicos |-> m] :
                      m \in {75, 76, 120, 121, 170, 171, 260, 261, 330, 331} }
AllDistances == {<<>>, <<0>>, <<10>>, <<35>>, <<70>>}
AllBodies ==
    { ReserveBody(c, TRUE, <<t>>, s, d) :
        c \in {"c3", "c4"},
        t \in {isoFromDateTimeLocal(6, 0, 0), isoFromDateTimeLocal(9, 0, 0),
               isoFromDateTimeLocal(11, 0, 0), isoFromDateTimeLocal(20, 30, 0)},
        s \in AllServices, d \in AllDistances }
    \cup InvalidBodies

\* the requests that have answered 200 so far
Completed == {q \in Requests : reserve[q].pc = "done" /\ reserve[q].status = 200}

\* the handler up to its first await: the 400 of a missing field
ReserveBegin(r, body, fromSearch) ==
    /\ reserve[r].pc = "idle"
    /\ reserve' =
         [reserve EXCEPT ![r] =
            IF body.calendarId = "" \/ body.slotISO = <<>> \/ ~body.fecha
            THEN [ReserveIdle EXCEPT !.pc = "done", !.body = body, !.status = 400,
                                     !.completedBefore = Completed,
                                     !.fromSearch = fromSearch]
            ELSE [ReserveIdle EXCEPT !.pc = "eventsBefore", !.body = body,
                                     !.duracionBase =
                                         duracionPorTipoYVolumen(body.tipoFlete,
                                                                 body.metrosCubicos),
                                     !.duracionTraslado =
                                         estimarDesplazamientoHoras(body.distanciaKm),
                                     !.start = body.slotISO[1],
                                     !.completedBefore = Completed,
                                     !.fromSearch = fromSearch]]
    /\ UNCHANGED <<events, nextId, hostOffset, search>>

\* a reserve request with a body of the client's own making
ReserveStart(r, body) == ReserveBegin(r, body, FALSE)

\* a reserve request of the client that searched: the returned calendar, one
\* of the returned slots, the service searched for, any distance
ReserveFromSearch(r, i, d) ==
    /\ search.pc = "done"
    /\ search.available
    /\ i \in 1..Len(search.calendar.availableSlots)
    /\ ReserveBegin(r, ReserveBody(search.calendar.calendarId, TRUE,
                                   <<search.calendar.availableSlots[i]>>,
                                   [tipoFlete |-> search.body.tipoFlete,
                                    metrosCubicos |-> search.body.metrosCubicos], d),
                    TRUE)

\* Math.round(duracionTotalHoras * 60 * 60 * 1000), duracionTotalHoras =
\* duracionBase + duracionTraslado + bufferHoras
duracionTotalMs(duracionBase, duracionTraslado, bufferHoras) ==
    RoundMs(<<duracionBase, duracionTraslado>>, bufferHoras)

\* a buffer that is applied to the first service of the day too
bufferHorasOf_Always(prevEvents) == 1

\* esPrimerServicio ? 0 : 1
bufferHorasOf(prevEvents) == IF Cardinality(prevEvents) = 0 THEN 0 ELSE 1

\* events.list(dayStart .. slotISO) answers (or fails): buffer and end time
ReserveEventsBefore(r, ok) ==
    /\ reserve[r].pc = "eventsBefore"
    /\ LET q == reserve[r]
           prevEvents == eventsList(q.body.calendarId, isoFromDateTimeLocal(0, 0, 0),
                                    q.body.slotISO[1])
           bufferHoras == bufferHorasOf(prevEvents)
       IN  reserve' =
             [reserve EXCEPT ![r] =
                IF ~ok
                THEN [q EXCEPT !.pc = "done", !.status = 500]
                ELSE [q EXCEPT !.pc = "recheck",
                               !.prevEvents = Cardinality(prevEvents),
                               !.bufferHoras = bufferHoras,
                               !.end = q.start + duracionTotalMs(q.duracionBase,
                                                                 q.duracionTraslado,
                                                                 bufferHoras)]]
    /\ UNCHANGED <<events, nextId, hostOffset, search>>

\* a recheck that never refuses
ReserveRecheck_NoCheck(r, ok) ==
    /\ reserve[r].pc = "recheck"
    /\ reserve' = [reserve EXCEPT ![r] =
                     IF ~ok THEN [@ EXCEPT !.pc = "done", !.status = 500]
                     ELSE [@ EXCEPT !.pc = "insert"]]
    /\ UNCHANGED <<events, nextId, hostOffset, search>>

\* a recheck that refuses only from the second conflicting event on
ReserveRecheck_MoreThanOne(r, ok) ==
    /\ reserve[r].pc = "recheck"
    /\ LET q == reserve[r]
           confEvents == eventsList(q.body.calendarId, q.start, q.end)
       IN  reserve' =
             [reserve EXCEPT ![r] =
                IF ~ok
                THEN [q EXCEPT !.pc = "done", !.status = 500]
                ELSE IF Cardinality(confEvents) > 1
                     THEN [q EXCEPT !.pc = "done", !.status = 409]
                     ELSE [q EXCEPT !.pc = "insert"]]
    /\ UNCHANGED <<events, nextId, hostOffset, search>>

\* events.list(start .. end) answers (or fails): 409 if any event is there
ReserveRecheck(r, ok) ==
    /\ reserve[r].pc = "recheck"
    /\ LET q == reserve[r]
           confEvents == eventsList(q.body.calendarId, q.start, q.end)
       IN  reserve' =
             [reserve EXCEPT ![r] =
                IF ~ok
                THEN [q EXCEPT !.pc = "done", !.status = 500]
                ELSE IF Cardinality(confEvents) > 0
                     THEN [q EXCEPT !.pc = "done", !.status = 409]
                     ELSE [q EXCEPT !.pc = "insert"]]
    /\ UNCHANGED <<events, nextId, hostOffset, search>>

\* an insert whose failure leaves the event stored all the same
ReserveInsert_Leaky(r, ok) ==
    /\ reserve[r].pc = "insert"
    /\ events' = eventsInsert(reserve[r].body.calendarId, r, reserve[r].start,
                              reserve[r].end)
    /\ nextId' = nextId + 1
    /\ reserve' = [reserve EXCEPT ![r] =
                     IF ok THEN [@ EXCEPT !.pc = "done", !.status = 200, !.eventId = nextId]
                     ELSE [@ EXCEPT !.pc = "done", !.status = 500]]
    /\ UNCHANGED <<hostOffset, search>>

\* events.insert() answers (or fails, and then stores nothing): 200
ReserveInsert(r, ok) ==
    /\ reserve[r].pc = "insert"
    /\ IF ok
       THEN /\ events' = eventsInsert(reserve[r].body.calendarId, r, reserve[r].start,
                                      reserve[r].end)
            /\ nextId' = nextId + 1
            /\ reserve' = [reserve EXCEPT ![r] =
                             [@ EXCEPT !.pc = "done", !.status = 200, !.eventId = nextId]]
       ELSE /\ reserve' = [reserve EXCEPT ![r] = [@ EXCEPT !.pc = "done", !.status = 500]]
            /\ UNCHANGED <<events, nextId>>
    /\ UNCHANGED <<hostOffset, search>>

(***************************************************************************)
(* The system                                                               *)
(***************************************************************************)
Event(id, c, h1, m1, h2, m2) ==
    [id |-> id, calendarId |-> c, summary |-> 0,
     start |-> isoFromDateTimeLocal(h1, m1, 0),
     end |-> isoFromDateTimeLocal(h2, m2, 0)]

\* the events the calendars hold before the first request (hour 25 is 01:00
\* of the next day)
InitialEvents ==
    { {},
      {Event(1, "c3", 10, 0, 11, 0)},
      {Event(1, "c3", 0, 0, 23, 59)},
      {Event(1, "c3", 10, 0, 11, 0), Event(2, "c4", 7, 0, 8, 0)},
      {Event(1, "c3", 0, 0, 23, 59), Event(2, "c4", 25, 0, 26, 0)} }

\* the hour offsets from UTC of the hosts the server runs on
HostOffsets == {BogotaOffsetHours, 0}

Init ==
    /\ events \in InitialEvents
    /\ nextId = Cardinality(events) + 1
    /\ hostOffset \in HostOffsets
    /\ search = SearchIdle
    /\ reserve = [r \in Requests |-> ReserveIdle]

\* the reserve handler never reads the host's clock
InitReserve == Init /\ hostOffset = BogotaOffsetHours

SearchNext ==
    \/ \E body \in SearchBodies : SearchStart(body)
    \/ \E ok \in BOOLEAN : SearchCalendarList(ok)
    \/ \E ok \in BOOLEAN : SearchEventsList(ok)

ReserveNext(r) ==
    \/ \E ok \in BOOLEAN : ReserveEventsBefore(r, ok)
    \/ \E ok \in BOOLEAN : ReserveRecheck(r, ok)
    \/ \E ok \in BOOLEAN : ReserveInsert(r, ok)

\* reserve requests handled side by side: every await is a point where
\* another request's handler runs
Next ==
    \/ \E r \in Requests : \E body \in ConcurrentBodies : ReserveStart(r, body)
    \/ \E r \in Requests : ReserveNext(r)

Spec == InitReserve /\ [][Next]_vars

\* reserve requests handled strictly one at a time
NoneInFlight == \A q \in Requests : reserve[q].pc \in {"idle", "done"}

NextSerial ==
    \/ \E r \in Requests : \E body \in ConcurrentBodies :
          NoneInFlight /\ ReserveStart(r, body)
    \/ \E r \in Requests : ReserveNext(r)

SpecSerial == InitReserve /\ [][NextSerial]_vars

\* one reserve request, over every kind of body
NextOne ==
    \/ \E body \in AllBodies : ReserveStart(1, body)
    \/ ReserveNext(1)

SpecOne == InitReserve /\ [][NextOne]_vars

ClientDistances == {<<>>, <<0>>, <<35>>}

\* a search, and a reserve request made from its answer or, at any time, by
\* another client
NextClient ==
    \/ SearchNext
    \/ \E body \in ConcurrentBodies : ReserveStart(1, body)
    \/ \E i \in 1..Len(slotsBase) : \E d \in ClientDistances : ReserveFromSearch(1, i, d)
    \/ ReserveNext(1)

SpecClient == Init /\ [][NextClient]_vars

(***************************************************************************)
(* Properties of the reserve handler                                        *)
(***************************************************************************)
Done(r) == reserve[r].pc = "done"
Answered(r, status) == Done(r) /\ reserve[r].status = status

\* the events request r's reservations left on the calendars
EventsOf(r) == {e \in events : e.summary = r}

\* the intervals [s1, e1) and [s2, e2) overlap
Overlap(s1, e1, s2, e2) == s1 < e2 /\ s2 < e1

SameRequest(r, q) == reserve[r].body = reserve[q].body

\* C2: two reserve requests for overlapping intervals on one calendar that were
\* handled side by side and both answered 200 have each left their event:
\* the calendar holds two distinct overlapping events (a double-booking).
C2_DoubleBooking ==
    \A r, q \in Requests :
        (/\ r # q
         /\ Answered(r, 200) /\ Answered(q, 200)
         /\ reserve[r].body.calendarId = reserve[q].body.calendarId
         /\ Overlap(reserve[r].start, reserve[r].end, reserve[q].start, reserve[q].end))
        => /\ r \notin reserve[q].completedBefore /\ q \notin reserve[r].completedBefore
           /\ \E e1 \in EventsOf(r), e2 \in EventsOf(q) :
                 /\ e1.id # e2.id
                 /\ e1.calendarId = e2.calendarId
                 /\ e1.start = reserve[r].start /\ e1.end = reserve[r].end
                 /\ e2.start = reserve[q].start /\ e2.end = reserve[q].end
                 /\ Overlap(e1.start, e1.end, e2.start, e2.end)

\* both rechecks saw no event, both inserts happened, both answered 200
C2_Witness ==
    \E r, q \in Requests :
        /\ r # q
        /\ Answered(r, 200) /\ Answered(q, 200)
        /\ \E e1 \in EventsOf(r), e2 \in EventsOf(q) :
              e1.calendarId = e2.calendarId /\ Overlap(e1.start, e1.end, e2.start, e2.end)

\* C3: a reserve request is all-or-nothing: it has left exactly one event if
\* and only if it answered 200; a request that answered 400, 409 or 500, or
\* has not answered yet, has left none; and the calendars hold nothing but
\* the events they began with and one event per 200.
C3_AllOrNothing ==
    /\ \A r \in Requests :
          /\ Done(r) => reserve[r].status \in {200, 400, 409, 500}
          /\ Answered(r, 200) <=> Cardinality(EventsOf(r)) = 1
          /\ ~Answered(r, 200) => EventsOf(r) = {}
          /\ Answered(r, 200) =>
                \E e \in EventsOf(r) : e.id = reserve[r].eventId
                                       /\ e.calendarId = reserve[r].body.calendarId
    /\ \E initial \in InitialEvents :
          events = initial \cup UNION {EventsOf(r) : r \in Requests}

\* one request refused with 409 next to one that answered 200
C3_Witness ==
    \E r, q \in Requests :
        /\ Answered(r, 409) /\ EventsOf(r) = {}
        /\ Answered(q, 200) /\ Cardinality(EventsOf(q)) = 1

\* C4 as stated: of two identical submissions, once the first has answered
\* 200 the second (unless the upstream fails it) answers 200 too and the
\* calendar holds an event of each.
C4_Original ==
    \A r, q \in Requests :
        (r # q /\ SameRequest(r, q) /\ Answered(r, 200) /\ Done(q)
         /\ reserve[q].status # 500)
        => Answered(q, 200) /\ EventsOf(r) # {} /\ EventsOf(q) # {}

\* C4 as amended: an identical submission that arrives after the first has
\* answered 200 is refused with 409 (or fails upstream) and leaves no event;
\* two identical submissions both answer 200 only when they were in flight
\* together, and then each has left its own event.
C4_Amended ==
    \A r, q \in Requests :
        (r # q /\ SameRequest(r, q) /\ Answered(r, 200) /\ Done(q))
        => /\ r \in reserve[q].completedBefore
                => reserve[q].status \in {409, 500} /\ EventsOf(q) = {}
           /\ Answered(q, 200)
                => /\ r \notin reserve[q].completedBefore
                   /\ q \notin reserve[r].completedBefore
                   /\ \E e1 \in EventsOf(r), e2 \in EventsOf(q) :
                         e1.id # e2.id /\ e1.start = e2.start

\* the second identical submission, made after the first answered, got 409
C4_Witness ==
    \E r, q \in Requests :
        /\ r # q /\ SameRequest(r, q)
        /\ Answered(r, 200) /\ r \in reserve[q].completedBefore
        /\ Answered(q, 409)

\* the events of the calendar of request r, its own aside, that the window
\* from the start of the day through slotStart holds
EarlierThatDay(r) ==
    {e \in events : /\ e.summary # r
                    /\ e.calendarId = reserve[r].body.calendarId
                    /\ e.end > isoFromDateTimeLocal(0, 0, 0)
                    /\ e.start < reserve[r].body.slotISO[1]}

\* C6: a reserve that answered 200 used a buffer of 0 hours if the calendar
\* held no event from the start of the day through slotStart and of 1 hour
\* if it held one or more; its event starts at slotStart and ends at
\* slotStart + serviceHours + travelHours + buffer (to the millisecond), and
\* the answer carries the same start and end.
C6_BufferAndEnd ==
    Answered(1, 200) =>
        LET q == reserve[1]
            buffer == IF EarlierThatDay(1) = {} THEN 0 ELSE 1
            total == RoundMs(<<duracionPorTipoYVolumen(q.body.tipoFlete,
                                                       q.body.metrosCubicos),
                               estimarDesplazamientoHoras(q.body.distanciaKm)>>, buffer)
        IN  /\ q.bufferHoras = buffer
            /\ q.start = q.body.slotISO[1]
            /\ q.end = q.body.slotISO[1] + total
            /\ \E e \in EventsOf(1) : /\ e.id = q.eventId
                                      /\ e.start = q.start
                                      /\ e.end = q.end

\* a reservation that is not the day's first: buffer of 1 hour
C6_Witness ==
    /\ Answered(1, 200)
    /\ EarlierThatDay(1) # {}
    /\ reserve[1].bufferHoras = 1
    /\ reserve[1].end - reserve[1].start > HourMs

\* C9 as stated: the travel time is distance/35 hours for every number given,
\* 0 included, and the fallback of half an hour only when none is given.
C9_Original ==
    \A r \in Requests :
        reserve[r].pc \notin {"idle"} /\ reserve[r].status # 400 =>
            LET d == reserve[r].body.distanciaKm
            IN  reserve[r].duracionTraslado =
                  IF d = <<>>
                  THEN Hours(0, 1)
                  ELSE [ms |-> (d[1] * HourMs) \div 35,
                        f  |-> ((d[1] * HourMs) % 35) * 5]

\* C10: with the reserve requests handled one at a time, no event left by a
\* reserve overlaps another event of the same calendar.
C10_NoOverlap ==
    \A e1 \in events : \A e2 \in events :
        (e1.summary # 0 /\ e1.id # e2.id /\ e1.calendarId = e2.calendarId)
        => ~Overlap(e1.start, e1.end, e2.start, e2.end)

\* two reservations on one calendar, the second starting where the first ends
C10_Witness ==
    \E e1 \in events : \E e2 \in events :
        /\ e1.summary # 0 /\ e2.summary # 0 /\ e1.id # e2.id
        /\ e1.calendarId = e2.calendarId
        /\ e1.end = e2.start

(***************************************************************************)
(* Properties of the search handler                                         *)
(***************************************************************************)
SearchAnswered == search.pc = "done" /\ search.status = 200
SearchFound == SearchAnswered /\ search.available

\* the duration the search reckons with, in milliseconds
EstimatedMs ==
    RoundMs(<<duracionPorTipoYVolumen(search.body.tipoFlete, search.body.metrosCubicos)>>, 0)

\* the booked intervals of a calendar on the requested day, as the calendar
\* service holds them now
BookedNow(calendarId) ==
    {[start |-> e.start, end |-> e.end] :
        e \in eventsList(calendarId, isoFromDateTimeLocal(0, 0, 0),
                         isoFromDateTimeLocal(23, 59, 59))}

ReturnedSlots ==
    {search.calendar.availableSlots[i] : i \in 1..Len(search.calendar.availableSlots)}

\* C1: every slot start S the search returns is clear of every booked
\* interval B fetched for the returned calendar (all of that calendar's
\* events of the day, if none was added since):
\* S + estimatedServiceHours <= B.start or S >= B.end.
C1_ReturnedSlotsAreFree ==
    SearchFound =>
        /\ \A S \in ReturnedSlots : \A B \in search.booked :
              S + EstimatedMs <= B.start \/ S >= B.end
        /\ EventsOf(1) = {} => search.booked = BookedNow(search.calendar.calendarId)

\* a returned slot that starts right where a booked interval ends
C1_Witness ==
    /\ SearchFound
    /\ \E S \in ReturnedSlots : \E B \in search.booked : S = B.end
    /\ \E S \in ReturnedSlots : \E B \in search.booked : S + EstimatedMs = B.start

RecheckHits(r) ==
    {e \in events : /\ e.summary # r
                    /\ e.calendarId = reserve[r].body.calendarId
                    /\ e.start < reserve[r].end
                    /\ e.end > reserve[r].start}

Eligible(c) ==
    LET s == lowerAll(c.summary)
    IN  /\ s # <<>>
        /\ includes(s, toLowerCase(search.body.ciudadOrigen))
        /\ ~includes(s, "inactivo")
        /\ ~includes(s, "pausado")
        /\ maxM3Of(c) >= search.body.metrosCubicos

\* the slot starts of the grid that survive against the intervals booked
Surviving(booked) ==
    LET est == EstimatedMs
    IN  {S \in {isoFromDateTimeLocal(slotsBase[i].hh, slotsBase[i].mm, 0) :
                   i \in 1..Len(slotsBase)} :
            /\ ~outsideOperatingHours(S, S + est)
            /\ ~conflict(booked, S, S + est)}

\* C7: the search is first-fit in list order: the calendar it returns is
\* eligible (label non-empty, with the city, no inactive or paused marker,
\* capacity >= volume) and has a surviving slot, no eligible calendar listed
\* before it has one, the answer carries all its surviving slots in ascending
\* order; and the search answers available:false only if no eligible calendar
\* has a surviving slot.
C7_FirstFit ==
    SearchAnswered =>
        LET eligible == {k \in 1..Len(CalendarList) : Eligible(CalendarList[k])}
            slots == search.calendar.availableSlots
        IN  /\ search.available =>
                  \E k \in eligible :
                     /\ CalendarList[k].id = search.calendar.calendarId
                     /\ search.calendar.maxM3 = maxM3Of(CalendarList[k])
                     /\ ReturnedSlots = Surviving(search.booked)
                     /\ Len(slots) > 0
                     /\ \A i \in 1..(Len(slots) - 1) : slots[i] < slots[i + 1]
                     /\ \A j \in eligible : j < k => Surviving(BookedNow(CalendarList[j].id)) = {}
            /\ ~search.available =>
                  \A k \in eligible : Surviving(BookedNow(CalendarList[k].id)) = {}

\* an eligible calendar without a surviving slot is passed over for the next
C7_Witness ==
    /\ SearchFound
    /\ search.calendar.calendarId = "c4"
    /\ Eligible(CalendarList[3])
    /\ Surviving(BookedNow("c3")) = {}
    /\ Len(search.calendar.availableSlots) > 1

\* the hour of an instant on the business clock (UTC-5)
BusinessHour(t) == ((t + BogotaOffsetHours * HourMs) % DayMs) \div HourMs

\* C8 as stated: every returned slot starts on the requested date at an hour
\* >= 6 of the business clock, and its end, start + estimatedServiceHours,
\* falls on the same date at an hour <= 21, whatever the host's timezone.
C8_Original ==
    SearchFound =>
        \A S \in ReturnedSlots :
            /\ S >= isoFromDateTimeLocal(0, 0, 0)
            /\ BusinessHour(S) >= OPERATIVE_START_HOUR
            /\ S + EstimatedMs < isoFromDateTimeLocal(0, 0, 0) + DayMs
            /\ BusinessHour(S + EstimatedMs) <= OPERATIVE_END_HOUR + 1

=============================================================================
